---- MODULE Spec2Model ----
(***************************************************************************)
(* A model of sht2 (src/main.go): a content-addressed blob store served    *)
(* over HTTP.  Every upload request is one process that walks through the  *)
(* statements of upload(); every retrieval is one process that walks       *)
(* through serveByID().  The storage root is modelled as a directory of    *)
(* staging names (the "up-*" files of os.CreateTemp), a directory of       *)
(* object paths (root/id[:2]/id[2:4]/id) and the files ("inodes") the      *)
(* entries point to; an open handle keeps pointing at its file when the    *)
(* entry is renamed or removed, as on a POSIX file system.                 *)
(*                                                                         *)
(* System calls whose error the code handles with a branch of its own      *)
(* (CreateTemp, the body copy, Close, MkdirAll, the usage walk, Rename)    *)
(* may fail nondeterministically; os.Remove, whose result the code drops,  *)
(* removes the entry whenever there is one.  The file .sht2 is never       *)
(* counted by the usage walk and is left out.                              *)
(***************************************************************************)
EXTENDS Integers, Sequences, FiniteSets, TLC

(* ---- bounds of the model ---- *)
NumUploads == 3
NumTmpNames == 2
NumByteValues == 1
MaxUploadByte == 2
MaxStorageByte == 2

(* ---- sizes fixed by the program ---- *)
DigestLen == 32
IdLen == 43

Uploads == 1..NumUploads
TmpNames == 1..NumTmpNames
Bytes == 0..(NumByteValues - 1)

(* ---- the identifier scheme ---- *)

\* The alphabet of base64.RawURLEncoding, in encoding order.
Alphabet ==
  << "A","B","C","D","E","F","G","H","I","J","K","L","M",
     "N","O","P","Q","R","S","T","U","V","W","X","Y","Z",
     "a","b","c","d","e","f","g","h","i","j","k","l","m",
     "n","o","p","q","r","s","t","u","v","w","x","y","z",
     "0","1","2","3","4","5","6","7","8","9","-","_" >>

\* The character class [A-Za-z0-9_-] of idRe.
IdChars == { Alphabet[i] : i \in 1..Len(Alphabet) }

Pow2(k) == IF k = 0 THEN 1
           ELSE IF k = 1 THEN 2
           ELSE IF k = 2 THEN 4
           ELSE IF k = 3 THEN 8
           ELSE IF k = 4 THEN 16
           ELSE IF k = 5 THEN 32
           ELSE IF k = 6 THEN 64
           ELSE 128

\* Bit j (0-based, most significant first) of the byte string bs; 0 past its end.
BitAt(bs, j) ==
  IF (j \div 8) < Len(bs) THEN (bs[(j \div 8) + 1] \div Pow2(7 - (j % 8))) % 2 ELSE 0

\* The value of the k-th (0-based) 6-bit group of bs.
Sextet(bs, k) ==
    32 * BitAt(bs, 6 * k)     + 16 * BitAt(bs, 6 * k + 1) + 8 * BitAt(bs, 6 * k + 2)
  + 4 * BitAt(bs, 6 * k + 3) + 2 * BitAt(bs, 6 * k + 4)  + BitAt(bs, 6 * k + 5)

\* base64.RawURLEncoding.EncodeToString: unpadded, URL-safe base64.
EncodeToString(bs) ==
  [ k \in 1..((8 * Len(bs) + 5) \div 6) |-> Alphabet[Sextet(bs, k - 1) + 1] ]

\* The 256-bit digest of a byte string.  BLAKE3 itself is outside the
\* repository; it is modelled as a collision-free function of the bytes
\* fed to the hasher (their count, the bytes, then a fixed filler).
Sum(b) ==
  [ i \in 1..DigestLen |->
      IF i = 1 THEN Len(b)
      ELSE IF i - 1 <= Len(b) THEN b[i - 1]
      ELSE (i * 37 + 251) % 256 ]

\* The identifier of content b, as upload() derives it.
IdOf(b) == EncodeToString(Sum(b))

\* Every byte string an upload can store.
RECURSIVE SeqsUpTo(_)
SeqsUpTo(k) ==
  IF k = 0 THEN { << >> }
  ELSE LET shorter == SeqsUpTo(k - 1)
       IN shorter \cup { Append(b, x) : b \in { c \in shorter : Len(c) = k - 1 }, x \in Bytes }

Contents == SeqsUpTo(MaxUploadByte)

\* The identifier of every byte string an upload can store, computed once.
IdTable == [ c \in Contents |-> IdOf(c) ]

\* Line 216: the identifier of the bytes b that were copied, looked up in
\* the table where it has them.
IdOfCopied(b) == IF b \in Contents THEN IdTable[b] ELSE IdOf(b)

\* objPath: root/id[:2]/id[2:4]/id, as the path below the root.
objPath(id) == << SubSeq(id, 1, 2), SubSeq(id, 3, 4), id >>

\* A mutant of idReMatch: the pattern without its anchors matches any string
\* that has 43 characters of the class in a row.
idReMatchUnanchored(id) ==
  \E k \in 0..(Len(id) - IdLen) : \A i \in 1..IdLen : id[k + i] \in IdChars

\* idRe.MatchString: exactly 43 characters of [A-Za-z0-9_-].
idReMatch(id) == Len(id) = IdLen /\ \A i \in 1..Len(id) : id[i] \in IdChars

\* strings.Contains(id, "/")
ContainsSlash(id) == \E i \in 1..Len(id) : id[i] = "/"

\* strings.TrimPrefix(path, "/")
TrimSlash(path) == IF Len(path) > 0 /\ path[1] = "/" THEN Tail(path) ELSE path


(* ---- the state ---- *)

VARIABLES
  up,       \* up[u]: the locals of upload request u and its position in upload()
  inode,    \* inode[u]: the file created by u's os.CreateTemp: its bytes, and
            \*           whether u's handle on it is still open
  tmpDir,   \* tmpDir[t]: the file the staging name "up-t" refers to, 0 if none
  objects,  \* objects[p]: the file at object path p (a function on the paths in use)
  dirs,     \* the shard directories root/xx/yy made by os.MkdirAll
  quotaMu,  \* the upload holding quotaMu, 0 when unlocked
  get       \* the locals of the retrieval request and its position in serveByID()

vars == << up, inode, tmpDir, objects, dirs, quotaMu, get >>

\* The Content-Type headers a request may carry: none or a parsable type
\* other than multipart/form-data ("raw"), one that mime.ParseMediaType
\* rejects, multipart/form-data, and multipart/form-data that
\* r.MultipartReader rejects (no boundary parameter).
ContentTypes == { "raw", "unparsable", "multipart", "multipart-noboundary" }

NoResp == [ code |-> 0, msg |-> "", id |-> << >>, size |-> 0, deduped |-> FALSE, used |-> 0 ]

\* http.Error(w, msg, code)
ErrorResp(msg, code) == [ NoResp EXCEPT !.code = code, !.msg = msg ]

\* The JSON answer {"id": id, "size": n, "deduped": d} with status 200.
OkResp(id, n, d) == [ NoResp EXCEPT !.code = 200, !.id = id, !.size = n, !.deduped = d ]

\* The JSON answer of status 507 with used_bytes.
QuotaResp(used) ==
  [ NoResp EXCEPT !.code = 507, !.msg = "root storage limit exceeded", !.used = used ]

RECURSIVE SumOver(_, _, _)
\* The sum, over the directory entries in es, of the size of the file each
\* entry of directory d refers to.
SumOver(es, d, ino) ==
  IF es = {} THEN 0
  ELSE LET e == CHOOSE x \in es : TRUE
       IN Len(ino[d[e]].data) + SumOver(es \ {e}, d, ino)

\* diskUsageBytes(exclude): every regular file below the root except the
\* staging name `exclude` (and the configuration file).
diskUsageBytes(exclude) ==
    SumOver({ t \in TmpNames : tmpDir[t] # 0 /\ t # exclude }, tmpDir, inode)
  + SumOver(DOMAIN objects, objects, inode)

\* The retrieval before it runs.  path: r.URL.Path; opened: os.Open was called;
\* file: the file behind the handle f, 0 if none; body, etag: what was served.
NoGet ==
  [ pc |-> "start", path |-> << >>, opened |-> FALSE, file |-> 0, code |-> 0,
    etag |-> << >>, body |-> << >> ]

\* The locals of a request that has not run yet.  mp: the source of the copy is
\* a multipart file part; read: the bytes MaxBytesReader has handed out; over:
\* MaxBytesReader has found the body longer than MaxUploadByte.
Locals ==
  [ pc |-> "start", mp |-> FALSE, read |-> 0, tmp |-> 0, h |-> << >>,
    n |-> 0, id |-> << >>, used |-> 0, resp |-> NoResp, over |-> FALSE ]

Init ==
  /\ up = [ u \in Uploads |->
              Locals ]
  /\ inode = [ u \in Uploads |-> [ data |-> << >>, open |-> FALSE ] ]
  /\ tmpDir = [ t \in TmpNames |-> 0 ]
  /\ objects = << >>
  /\ dirs = {}
  /\ quotaMu = 0
  /\ get = NoGet

(* ---- upload(): lines 147-256 ---- *)

\* The handler has returned with answer r.  Of its locals only the staging
\* name it was given (0 if none) and the verdict of MaxBytesReader are kept.
Returned(u, r) ==
  [ Locals EXCEPT !.pc = "done", !.resp = r, !.over = up[u].over, !.tmp = up[u].tmp ]

\* An early return after the defer of line 156: answer, then run the deferred
\* os.Remove(tmpName).
Fail(u, msg, code) ==
  up' = [ up EXCEPT ![u].pc = "remove", ![u].resp = ErrorResp(msg, code) ]

\* A return while quotaMu is held: answer, then the deferred Unlock, then the
\* deferred os.Remove(tmpName).
Return(u, r) == up' = [ up EXCEPT ![u].pc = "unlock", ![u].resp = r ]

\* Requests are numbered in the order in which their handlers start.
Arrived(u) == up[u].pc = "start" /\ \A v \in Uploads : v < u => up[v].pc # "start"

\* Lines 148-156: wrap the body in MaxBytesReader and create the staging file
\* under a name that no entry of the root has at this moment.
CreateTemp(u) ==
  /\ Arrived(u)
  /\ \E t \in TmpNames :
       /\ tmpDir[t] = 0
       /\ tmpDir' = [ tmpDir EXCEPT ![t] = u ]
       /\ inode' = [ inode EXCEPT ![u] = [ data |-> << >>, open |-> TRUE ] ]
       /\ up' = [ up EXCEPT ![u].pc = "ctype", ![u].tmp = t ]
  /\ UNCHANGED << objects, dirs, quotaMu, get >>

\* Lines 150-154: os.CreateTemp fails; nothing is deferred yet.
CreateTempErr(u) ==
  /\ Arrived(u)
  /\ up' = [ up EXCEPT ![u] = Returned(u, ErrorResp("tmp", 500)) ]
  /\ UNCHANGED << inode, tmpDir, objects, dirs, quotaMu, get >>

\* Lines 158-171: the Content-Type header picks the source of the copy.
ParseMediaType(u) ==
  /\ up[u].pc = "ctype"
  /\ \E ct \in ContentTypes :
       CASE ct = "unparsable" -> Fail(u, "invalid content-type", 400)
         [] ct = "multipart-noboundary" -> Fail(u, "invalid multipart body", 400)
         [] ct = "multipart" -> up' = [ up EXCEPT ![u].pc = "parts", ![u].mp = TRUE ]
         [] OTHER -> up' = [ up EXCEPT ![u].pc = "copy" ]
  /\ UNCHANGED << inode, tmpDir, objects, dirs, quotaMu, get >>

\* Lines 174-189, one turn of the loop: mr.NextPart() reads the next part
\* header from the limited body.  A part header, like the closing boundary,
\* takes at least one byte of the body.
NextPartSkip(u) ==
  /\ up[u].pc = "parts"
  /\ up[u].read < MaxUploadByte
  /\ up' = [ up EXCEPT ![u].read = @ + 1 ]
  /\ UNCHANGED << inode, tmpDir, objects, dirs, quotaMu, get >>

\* Lines 184-196: the part has a file name or is named "file".
NextPartFile(u) ==
  /\ up[u].pc = "parts"
  /\ up[u].read < MaxUploadByte
  /\ up' = [ up EXCEPT ![u].read = @ + 1, ![u].pc = "copy" ]
  /\ UNCHANGED << inode, tmpDir, objects, dirs, quotaMu, get >>

\* Lines 176-178, 191-194: the closing boundary comes before any file part.
NextPartEOF(u) ==
  /\ up[u].pc = "parts"
  /\ up[u].read < MaxUploadByte
  /\ up' = [ up EXCEPT ![u].read = @ + 1, ![u].pc = "remove",
                       ![u].resp = ErrorResp("multipart missing file part", 400) ]
  /\ UNCHANGED << inode, tmpDir, objects, dirs, quotaMu, get >>

\* Lines 179-182: NextPart fails because the body is malformed or cut short.
NextPartErr(u) ==
  /\ up[u].pc = "parts"
  /\ Fail(u, "invalid multipart body", 400)
  /\ UNCHANGED << inode, tmpDir, objects, dirs, quotaMu, get >>

\* Lines 179-182: NextPart fails because MaxBytesReader has handed out
\* MaxUploadByte bytes and the body goes on: any error other than io.EOF is
\* answered alike.
NextPartTooLarge(u) ==
  /\ up[u].pc = "parts"
  /\ up[u].read = MaxUploadByte
  /\ up' = [ up EXCEPT ![u].pc = "remove", ![u].over = TRUE,
                       ![u].resp = ErrorResp("invalid multipart body", 400) ]
  /\ UNCHANGED << inode, tmpDir, objects, dirs, quotaMu, get >>

\* A mutant of CopyByte: the copy runs under quotaMu, so that it waits while
\* another request holds it.
CopyByteGated(u) ==
  /\ up[u].pc = "copy"
  /\ up[u].read < MaxUploadByte
  /\ quotaMu = 0
  /\ \E b \in Bytes :
       /\ inode' = [ inode EXCEPT ![u].data = Append(@, b) ]
       /\ up' = [ up EXCEPT ![u].read = @ + 1, ![u].h = Append(@, b) ]
  /\ UNCHANGED << tmpDir, objects, dirs, quotaMu, get >>

\* A mutant of CopyByte: the reader hands out one byte more than the limit
\* before it reports the body as too large.
CopyByteOffByOne(u) ==
  /\ up[u].pc = "copy"
  /\ up[u].read <= MaxUploadByte
  /\ \E b \in Bytes :
       /\ inode' = [ inode EXCEPT ![u].data = Append(@, b) ]
       /\ up' = [ up EXCEPT ![u].read = @ + 1, ![u].h = Append(@, b) ]
  /\ UNCHANGED << tmpDir, objects, dirs, quotaMu, get >>

\* Line 201, one byte of io.Copy(io.MultiWriter(tmp, h), src): the byte goes
\* to the file behind the handle tmp and to the hasher.
CopyByte(u) ==
  /\ up[u].pc = "copy"
  /\ up[u].read < MaxUploadByte
  /\ \E b \in Bytes :
       /\ inode' = [ inode EXCEPT ![u].data = Append(@, b) ]
       /\ up' = [ up EXCEPT ![u].read = @ + 1, ![u].h = Append(@, b) ]
  /\ UNCHANGED << tmpDir, objects, dirs, quotaMu, get >>

\* A mutant of CopyTooLarge: the oversize error is answered without a return,
\* and the handler goes on with the bytes copied so far.
CopyTooLargeNoReturn(u) ==
  /\ up[u].pc = "copy"
  /\ up[u].read = MaxUploadByte
  /\ up' = [ up EXCEPT ![u].pc = "close", ![u].over = TRUE, ![u].n = Len(up[u].h),
                       ![u].read = 0, ![u].mp = FALSE ]
  /\ UNCHANGED << inode, tmpDir, objects, dirs, quotaMu, get >>

\* Lines 201-207: the body has more than MaxUploadByte bytes.
CopyTooLarge(u) ==
  /\ up[u].pc = "copy"
  /\ up[u].read = MaxUploadByte
  /\ up' = [ up EXCEPT ![u].pc = "remove", ![u].over = TRUE,
                       ![u].resp = ErrorResp("upload exceeds MAX_UPLOAD_GB", 413) ]
  /\ UNCHANGED << inode, tmpDir, objects, dirs, quotaMu, get >>

\* Lines 201, 208-209: the copy fails otherwise (the client is gone, the
\* multipart body ends without a boundary, the write fails).
CopyErr(u) ==
  /\ up[u].pc = "copy"
  /\ Fail(u, "copy", 400)
  /\ UNCHANGED << inode, tmpDir, objects, dirs, quotaMu, get >>

\* Line 201: the source ends: the raw body is at EOF, or the boundary that
\* ends the file part (at least one more byte of the body) has been read.
CopyEOF(u) ==
  /\ up[u].pc = "copy"
  /\ IF up[u].mp
       THEN up[u].read < MaxUploadByte
       ELSE TRUE
  /\ up' = [ up EXCEPT ![u].pc = "close", ![u].n = Len(up[u].h), ![u].read = 0,
                       ![u].mp = FALSE ]
  /\ UNCHANGED << inode, tmpDir, objects, dirs, quotaMu, get >>

\* Lines 211, 216-217: tmp.Close(), then the identifier from the digest.
CloseTmp(u) ==
  /\ up[u].pc = "close"
  /\ inode' = [ inode EXCEPT ![u].open = FALSE ]
  /\ up' = [ up EXCEPT ![u].pc = "mkdir", ![u].id = IdOfCopied(up[u].h) ]
  /\ UNCHANGED << tmpDir, objects, dirs, quotaMu, get >>

\* Lines 211-214: tmp.Close() reports an error (the descriptor is released
\* all the same).
CloseTmpErr(u) ==
  /\ up[u].pc = "close"
  /\ inode' = [ inode EXCEPT ![u].open = FALSE ]
  /\ Fail(u, "close", 500)
  /\ UNCHANGED << tmpDir, objects, dirs, quotaMu, get >>

\* Line 219: os.MkdirAll(filepath.Dir(final)).
MkdirAll(u) ==
  /\ up[u].pc = "mkdir"
  /\ dirs' = dirs \cup { SubSeq(objPath(up[u].id), 1, 2) }
  /\ up' = [ up EXCEPT ![u].pc = "lock" ]
  /\ UNCHANGED << inode, tmpDir, objects, quotaMu, get >>

\* Lines 219-222.
MkdirAllErr(u) ==
  /\ up[u].pc = "mkdir"
  /\ Fail(u, "mkdir", 500)
  /\ UNCHANGED << inode, tmpDir, objects, dirs, quotaMu, get >>

\* A mutant of Lock: quotaMu is taken without waiting for its holder.
LockNoWait(u) ==
  /\ up[u].pc = "lock"
  /\ quotaMu' = u
  /\ up' = [ up EXCEPT ![u].pc = "stat" ]
  /\ UNCHANGED << inode, tmpDir, objects, dirs, get >>

\* Line 224: quotaMu.Lock().
Lock(u) ==
  /\ up[u].pc = "lock"
  /\ quotaMu = 0
  /\ quotaMu' = u
  /\ up' = [ up EXCEPT ![u].pc = "stat" ]
  /\ UNCHANGED << inode, tmpDir, objects, dirs, get >>

\* A mutant of StatFinal: the existence check is skipped and every upload goes
\* on to the quota check.
StatFinalNoDedup(u) ==
  /\ up[u].pc = "stat"
  /\ up' = [ up EXCEPT ![u].pc = "usage" ]
  /\ UNCHANGED << inode, tmpDir, objects, dirs, quotaMu, get >>

\* Lines 227-231: os.Stat(final) finds a file: the upload is a duplicate.
StatFinal(u) ==
  /\ up[u].pc = "stat"
  /\ IF objPath(up[u].id) \in DOMAIN objects
       THEN Return(u, OkResp(up[u].id, up[u].n, TRUE))
       ELSE up' = [ up EXCEPT ![u].pc = "usage" ]
  /\ UNCHANGED << inode, tmpDir, objects, dirs, quotaMu, get >>

\* Lines 233, 238-247: the usage walk and the comparison with the ceiling.
DiskUsage(u) ==
  /\ up[u].pc = "usage"
  /\ LET used == diskUsageBytes(up[u].tmp)
     IN IF used + up[u].n > MaxStorageByte
          THEN up' = [ up EXCEPT ![u].pc = "unlock", ![u].used = used,
                                 ![u].resp = QuotaResp(used) ]
          ELSE up' = [ up EXCEPT ![u].pc = "rename", ![u].used = used ]
  /\ UNCHANGED << inode, tmpDir, objects, dirs, quotaMu, get >>

\* Lines 233-237: the walk fails (an entry vanished between being listed and
\* being examined, or the directory cannot be read).
DiskUsageErr(u) ==
  /\ up[u].pc = "usage"
  /\ Return(u, ErrorResp("usage", 500))
  /\ UNCHANGED << inode, tmpDir, objects, dirs, quotaMu, get >>

\* Lines 249-255: os.Rename(tmpName, final) moves whatever entry the staging
\* name has at this moment onto the object path.
Rename(u) ==
  /\ up[u].pc = "rename"
  /\ tmpDir[up[u].tmp] # 0
  /\ objects' = (objPath(up[u].id) :> tmpDir[up[u].tmp]) @@ objects
  /\ tmpDir' = [ tmpDir EXCEPT ![up[u].tmp] = 0 ]
  /\ Return(u, OkResp(up[u].id, up[u].n, FALSE))
  /\ UNCHANGED << inode, dirs, quotaMu, get >>

\* Lines 249-252: os.Rename fails: the staging name has no entry any more, or
\* the file system refuses.
RenameErr(u) ==
  /\ up[u].pc = "rename"
  /\ Return(u, ErrorResp("rename", 500))
  /\ UNCHANGED << inode, tmpDir, objects, dirs, quotaMu, get >>

\* A mutant of Unlock: the release of quotaMu is not deferred, so that a
\* return from behind the gate leaves it held.
UnlockForgotten(u) ==
  /\ up[u].pc = "unlock"
  /\ up' = [ up EXCEPT ![u].pc = "remove" ]
  /\ UNCHANGED << inode, tmpDir, objects, dirs, quotaMu, get >>

\* Line 225, deferred: quotaMu.Unlock().
Unlock(u) ==
  /\ up[u].pc = "unlock"
  /\ quotaMu' = 0
  /\ up' = [ up EXCEPT ![u].pc = "remove" ]
  /\ UNCHANGED << inode, tmpDir, objects, dirs, get >>

\* A mutant of RemoveTmp: the removal is not deferred; the handler returns.
RemoveTmpSkipped(u) ==
  /\ up[u].pc = "remove"
  /\ up' = [ up EXCEPT ![u] = Returned(u, up[u].resp) ]
  /\ UNCHANGED << inode, tmpDir, objects, dirs, quotaMu, get >>

\* Line 156, deferred: os.Remove(tmpName) removes whatever entry the staging
\* name has at this moment; the handler returns.
RemoveTmp(u) ==
  /\ up[u].pc = "remove"
  /\ tmpDir' = [ tmpDir EXCEPT ![up[u].tmp] = 0 ]
  /\ up' = [ up EXCEPT ![u] = Returned(u, up[u].resp) ]
  /\ UNCHANGED << inode, objects, dirs, quotaMu, get >>

(* ---- serveByID(): lines 258-281 ---- *)

\* The paths of well-formed identifiers: of every content an upload can store
\* and of one it cannot.
IdPaths ==
       { << "/" >> \o IdOf(c) : c \in Contents }
  \cup { << "/" >> \o IdOf([ i \in 1..(MaxUploadByte + 1) |-> 0 ]) }

\* The request paths tried: those, and malformed ones made from an identifier v.
ReqPaths ==
  LET v == IdOf(<< >>)
  IN IdPaths
    \cup { << >>,
           << "/" >>,
           << "/" >> \o SubSeq(v, 1, IdLen - 1),
           << "/" >> \o v \o << "A" >>,
           << "/" >> \o [ v EXCEPT ![3] = "/" ],
           << "/" >> \o [ v EXCEPT ![1] = ".", ![2] = "." ],
           << "/" >> \o [ v EXCEPT ![IdLen] = "+" ],
           << "/" >> \o [ v EXCEPT ![IdLen] = "=" ],
           << "/", "/" >> \o v,
           << "/", ".", ".", "/", "u", "p", "-", "1" >>,
           << "/", "u", "p", "-", "1" >> }

\* The test of line 260.
BadId(id) == id = << >> \/ ContainsSlash(id) \/ ~idReMatch(id)

\* Lines 329-335 of main and 259-270: a GET or HEAD of `path`.  The path "/"
\* is answered by main; any other goes to serveByID, which answers 404 for a
\* malformed identifier and otherwise opens objPath(id).
ServeOpenOf(paths) ==
  /\ get.pc = "start"
  /\ \E path \in paths :
       LET id == TrimSlash(path)
       IN CASE path = << "/" >> ->
                 get' = [ get EXCEPT !.pc = "done", !.path = path, !.code = 405 ]
            [] path # << "/" >> /\ BadId(id) ->
                 get' = [ get EXCEPT !.pc = "done", !.path = path, !.code = 404 ]
            [] path # << "/" >> /\ ~BadId(id) /\ objPath(id) \notin DOMAIN objects ->
                 get' = [ get EXCEPT !.pc = "done", !.path = path, !.code = 404,
                                     !.opened = TRUE ]
            [] OTHER ->
                 get' = [ get EXCEPT !.pc = "serve", !.path = path, !.opened = TRUE,
                                     !.file = objects[objPath(id)] ]
  /\ UNCHANGED << up, inode, tmpDir, objects, dirs, quotaMu >>

ServeOpen == ServeOpenOf(ReqPaths)

\* Lines 273-280: the ETag is the quoted identifier and http.ServeContent
\* sends the bytes of the open file.
ServeContent ==
  /\ get.pc = "serve"
  /\ get' = [ get EXCEPT !.pc = "done", !.code = 200,
                         !.etag = << "\"" >> \o TrimSlash(get.path) \o << "\"" >>,
                         !.body = inode[get.file].data ]
  /\ UNCHANGED << up, inode, tmpDir, objects, dirs, quotaMu >>

\* Lines 273-277: f.Stat() fails.
ServeStatErr ==
  /\ get.pc = "serve"
  /\ get' = [ get EXCEPT !.pc = "done", !.code = 500 ]
  /\ UNCHANGED << up, inode, tmpDir, objects, dirs, quotaMu >>

\* os.Rename fails because the staging name has no entry any more.
RenameGone(u) == up[u].pc = "rename" /\ tmpDir[up[u].tmp] = 0 /\ RenameErr(u)

\* A request with no Content-Type header, or a parsable one that is not
\* multipart/form-data: the body itself is the source of the copy.
ParseMediaTypeRaw(u) == ParseMediaType(u) /\ up'[u].pc = "copy"

\* One step of upload request u.
UploadStep(u) ==
    \/ CreateTemp(u)
    \/ CreateTempErr(u)
    \/ ParseMediaType(u)
    \/ NextPartSkip(u)
    \/ NextPartFile(u)
    \/ NextPartEOF(u)
    \/ NextPartErr(u)
    \/ NextPartTooLarge(u)
    \/ CopyByte(u)
    \/ CopyTooLarge(u)
    \/ CopyErr(u)
    \/ CopyEOF(u)
    \/ CloseTmp(u)
    \/ CloseTmpErr(u)
    \/ MkdirAll(u)
    \/ MkdirAllErr(u)
    \/ Lock(u)
    \/ StatFinal(u)
    \/ DiskUsage(u)
    \/ DiskUsageErr(u)
    \/ Rename(u)
    \/ RenameErr(u)
    \/ Unlock(u)
    \/ RemoveTmp(u)

Next == \E u \in Uploads : UploadStep(u)

Spec == Init /\ [][Next]_vars

\* One step of upload request u when its body is raw and ingestion meets no
\* failure: every route through the publish gate, those of failing system
\* calls included.
GateStep(u) ==
    \/ CreateTemp(u)
    \/ ParseMediaTypeRaw(u)
    \/ CopyByte(u)
    \/ CopyEOF(u)
    \/ CloseTmp(u)
    \/ MkdirAll(u)
    \/ Lock(u)
    \/ StatFinal(u)
    \/ DiskUsage(u)
    \/ DiskUsageErr(u)
    \/ Rename(u)
    \/ RenameErr(u)
    \/ Unlock(u)
    \/ RemoveTmp(u)

NextLive == \E u \in Uploads : GateStep(u)

\* The steps of request u that wait for nothing but the handler itself and, at
\* quotaMu.Lock(), a free mutex: everything after the body has ended.
AfterCopy(u) ==
  /\ up[u].pc \in { "close", "mkdir", "lock", "stat", "usage", "rename", "unlock", "remove" }
  /\ GateStep(u)

\* The Go scheduler runs every goroutine that can run, and sync.Mutex hands a
\* free mutex to a waiter: a handler past its copy is not left behind for ever.
SpecLive == Init /\ [][NextLive]_vars /\ \A u \in Uploads : WF_vars(AfterCopy(u))

\* Requests handled one after the other: a request takes a step only while no
\* other request is between its arrival and its return.
NextSeq ==
  \E u \in Uploads :
    /\ \A w \in Uploads \ {u} : up[w].pc \in { "start", "done" }
    /\ UploadStep(u)

SpecSeq == Init /\ [][NextSeq]_vars

\* Uploads of raw bodies whose system calls fail for no reason outside the
\* program, together with one retrieval of a well-formed identifier.
NextServe ==
  \/ \E u \in Uploads :
       \/ CreateTemp(u)
       \/ ParseMediaTypeRaw(u)
       \/ CopyByte(u)
       \/ CopyTooLarge(u)
       \/ CopyEOF(u)
       \/ CloseTmp(u)
       \/ MkdirAll(u)
       \/ Lock(u)
       \/ StatFinal(u)
       \/ DiskUsage(u)
       \/ Rename(u)
       \/ RenameGone(u)
       \/ Unlock(u)
       \/ RemoveTmp(u)
  \/ ServeOpenOf(IdPaths)
  \/ ServeContent

SpecServe == Init /\ [][NextServe]_vars

\* The states in which the first k requests have each published one content,
\* all different and together within the ceiling, and have returned.
InitStored ==
  /\ \E k \in 0..NumUploads :
       \E c \in [ 1..k -> Contents ] :
         /\ \A i, j \in 1..k : i # j => c[i] # c[j]
         /\ SumOver(1..k, [ i \in 1..k |-> i ], [ i \in 1..k |-> [ data |-> c[i] ] ])
              <= MaxStorageByte
         /\ \E t \in [ 1..k -> TmpNames ] :
              up = [ u \in Uploads |->
                     IF u <= k
                       THEN [ Locals EXCEPT !.pc = "done", !.tmp = t[u],
                                            !.resp = OkResp(IdOf(c[u]), Len(c[u]), FALSE) ]
                       ELSE Locals ]
         /\ inode = [ u \in Uploads |->
                        IF u <= k THEN [ data |-> c[u], open |-> FALSE ]
                                  ELSE [ data |-> << >>, open |-> FALSE ] ]
         /\ objects = [ p \in { objPath(IdOf(c[i])) : i \in 1..k } |->
                          CHOOSE i \in 1..k : objPath(IdOf(c[i])) = p ]
         /\ dirs = { SubSeq(objPath(IdOf(c[i])), 1, 2) : i \in 1..k }
  /\ tmpDir = [ t \in TmpNames |-> 0 ]
  /\ quotaMu = 0
  /\ get = NoGet

\* One retrieval of any path from a store that uploads have filled.
NextGet == ServeOpen \/ ServeContent \/ ServeStatErr

SpecGet == InitStored /\ [][NextGet]_vars


(* ---- the claims ---- *)

\* The bytes held by the files at object paths.
StoredBytes == SumOver(DOMAIN objects, objects, inode)

\* C1: in every reachable state the files at object paths together hold at
\* most MaxStorageByte bytes.
C1_StoredWithinCeiling == StoredBytes <= MaxStorageByte


\* Request u has written its answer.
Answered(u) == up[u].pc \in { "unlock", "remove", "done" } /\ up[u].resp.code # 0

\* Request u has answered from behind the publish gate with a verdict on its
\* content (not with the failure of a system call).
Judged(u) == Answered(u) /\ up[u].resp.code \in { 200, 507 }

\* C2: an upload whose content is not stored passes the quota check exactly
\* when the bytes at object paths plus its size are within MaxStorageByte, and
\* a rejection reports exactly the bytes at object paths as used_bytes.
C2_QuotaBoundary ==
  [][ \A u \in Uploads :
        (up[u].pc = "usage" /\ up'[u].pc # "usage" /\ up'[u].resp.msg # "usage")
          => /\ (up'[u].pc = "rename") <=> (StoredBytes + up[u].n <= MaxStorageByte)
             /\ (up'[u].resp.code = 507) => (up'[u].resp.used = StoredBytes) ]_vars

\* C3: when two requests have uploaded the same bytes and no other request
\* has arrived, both are answered 200 with the same identifier and the object
\* path of that identifier holds those bytes.
C3_ConcurrentDedup ==
  \A u, v \in Uploads :
    ( /\ u # v
      /\ Judged(u) /\ Judged(v)
      /\ inode[u].data = inode[v].data
      /\ \A w \in Uploads \ {u, v} : up[w].pc = "start" )
    => /\ up[u].resp.code = 200 /\ up[v].resp.code = 200
       /\ up[u].resp.id = up[v].resp.id
       /\ objPath(up[u].resp.id) \in DOMAIN objects
       /\ inode[objects[objPath(up[u].resp.id)]].data = inode[u].data

\* The sizes answered by the requests that published (200, not deduped).
RECURSIVE PublishedSizes(_)
PublishedSizes(us) ==
  IF us = {} THEN 0
  ELSE LET u == CHOOSE x \in us : TRUE
       IN (IF Answered(u) /\ up[u].resp.code = 200 /\ ~up[u].resp.deduped
             THEN up[u].resp.size ELSE 0)
          + PublishedSizes(us \ {u})

\* C4: with requests handled one after the other, a request that uploads the
\* bytes an earlier request was answered 200 for is answered 200 with the same
\* identifier, deduped, and the size of its own payload; and the stored bytes
\* are those of the requests that published, so that it adds none.
C4_SequentialDedup ==
  /\ \A u, v \in Uploads :
       ( /\ u < v
         /\ up[u].pc = "done" /\ up[u].resp.code = 200
         /\ Answered(v) /\ up[v].resp.msg \notin
              { "tmp", "invalid content-type", "invalid multipart body",
                "multipart missing file part", "upload exceeds MAX_UPLOAD_GB",
                "copy", "close", "mkdir" }
         /\ IdTable[inode[v].data] = up[u].resp.id )
       => up[v].resp = OkResp(up[u].resp.id, Len(inode[v].data), TRUE)
  /\ StoredBytes = PublishedSizes(Uploads)

\* C4 witness: the second of two sequential uploads of one non-empty content
\* has been answered as a duplicate.
C4_Witness ==
  \E u, v \in Uploads :
    /\ u < v
    /\ up[u].pc = "done" /\ up[u].resp.code = 200 /\ ~up[u].resp.deduped
    /\ up[v].pc = "done" /\ up[v].resp.code = 200 /\ up[v].resp.deduped
    /\ up[v].resp.id = up[u].resp.id
    /\ up[v].resp.size > 0
    /\ StoredBytes = up[u].resp.size

\* C5: every file at an object path holds bytes whose digest encodes to the
\* identifier of that path.
C5_ContentAddressed ==
  \A p \in DOMAIN objects : p = objPath(IdTable[inode[objects[p]].data])

\* C6: the file a retrieval has opened is no longer being written: the
\* handle that wrote it was closed before it came to its object path.
C6_AtomicVisibility == get.file # 0 => ~inode[get.file].open

\* C7: when a request that created a staging file returns, the staging name
\* it created has no entry.
C7_StagingRemoved ==
  [][ \A u \in Uploads :
        (up[u].pc # "done" /\ up'[u].pc = "done" /\ up'[u].tmp # 0)
          => tmpDir'[up'[u].tmp] = 0 ]_vars

\* C7 witness: a request that published and a request whose copy failed have
\* created staging files and returned, and no staging name has an entry.
C7_Witness ==
  /\ \A t \in TmpNames : tmpDir[t] = 0
  /\ \E u, v \in Uploads :
       /\ up[u].pc = "done" /\ up[u].tmp # 0
       /\ up[u].resp.code = 200 /\ ~up[u].resp.deduped
       /\ up[v].pc = "done" /\ up[v].tmp # 0
       /\ up[v].resp.code \in { 400, 413 }

\* The identifier of the retrieval's path is not well formed: empty, with a
\* "/", not 43 characters long, or with a character outside [A-Za-z0-9_-].
Malformed(id) ==
  \/ Len(id) = 0
  \/ \E i \in DOMAIN id : id[i] = "/"
  \/ Len(id) # 43
  \/ \E i \in DOMAIN id : id[i] \notin IdChars

\* C8: a retrieval that serveByID has answered, for a path whose identifier
\* is malformed, was answered 404 without a call of os.Open; os.Open is
\* called only for well-formed identifiers.
C8_IdValidation ==
  (get.pc # "start" /\ get.path # << "/" >>)
    => IF Malformed(TrimSlash(get.path))
         THEN get.code = 404 /\ ~get.opened /\ get.file = 0
         ELSE get.opened

\* C8 witness: a path with ".." in place of the first two characters of a
\* stored identifier has been answered 404 without an open.
C8_Witness ==
  /\ get.pc = "done"
  /\ get.path = << "/" >> \o [ IdOf(<< >>) EXCEPT ![1] = ".", ![2] = "." ]
  /\ objPath(IdOf(<< >>)) \in DOMAIN objects
  /\ get.code = 404 /\ ~get.opened

\* C9: a request whose body MaxBytesReader found longer than MaxUploadByte is
\* answered 413, publishes nothing and leaves no staging entry.
C9_OversizeIs413 ==
  \A u \in Uploads :
    (up[u].over /\ Answered(u)) => up[u].resp.code = 413

\* C10: a request answered "invalid content-type" has created no staging file.
C10_ContentTypeBeforeDisk ==
  \A u \in Uploads : up[u].resp.msg = "invalid content-type" => up[u].tmp = 0

\* The bytes of the payloads that the requests have staged, all together.
UploadedBytes == SumOver(Uploads, [ u \in Uploads |-> u ], inode)

\* C11: when every request has been judged at the publish gate, the payloads
\* being pairwise different and together larger than MaxStorageByte, every
\* rejected payload is one that does not fit beside the stored objects, and
\* every other payload is published under its own identifier.
C11_CommitOrderFitting ==
  ( /\ \A u \in Uploads : Judged(u)
    /\ \A u, v \in Uploads : u # v => inode[u].data # inode[v].data
    /\ \A u \in Uploads : Len(inode[u].data) <= MaxStorageByte
    /\ UploadedBytes > MaxStorageByte )
  => \A u \in Uploads :
       IF up[u].resp.code = 507
         THEN StoredBytes + Len(inode[u].data) > MaxStorageByte
         ELSE /\ up[u].resp = OkResp(IdTable[inode[u].data], Len(inode[u].data), FALSE)
              /\ objPath(up[u].resp.id) \in DOMAIN objects

\* C12: a file at an object path stays at that path with the bytes it has.
C12_WriteOnce ==
  [][ \A p \in DOMAIN objects :
        /\ p \in DOMAIN objects'
        /\ inode'[objects'[p]].data = inode[objects[p]].data ]_vars

\* The requests between the existence check of line 227 and the deferred
\* release of quotaMu.
InGate == { u \in Uploads : up[u].pc \in { "stat", "usage", "rename", "unlock" } }

\* C13: at most one request is between its existence check and its return
\* from the rename, and that request holds quotaMu.
C13_SerializedPublish ==
  /\ Cardinality(InGate) <= 1
  /\ \A u \in InGate : quotaMu = u

\* C13 witness: one request is about to rename while another, with its
\* payload staged, waits for quotaMu.
C13_Witness ==
  \E u, v \in Uploads :
    /\ up[u].pc = "rename" /\ quotaMu = u
    /\ up[v].pc = "lock" /\ Len(inode[v].data) > 0

\* The answers of the returns before quotaMu.Lock(): lines 152-222.
IngestFailures ==
  { "tmp", "invalid content-type", "invalid multipart body",
    "multipart missing file part", "upload exceeds MAX_UPLOAD_GB", "copy",
    "close", "mkdir" }

\* C14: the request that holds quotaMu has copied its whole body within the
\* upload ceiling, closed its staging file and derived the identifier from
\* the digest of the bytes copied; a request answered with an ingestion
\* failure is past the gate without holding quotaMu.
C14_GateAfterCompleteCopy ==
  \A u \in Uploads :
    /\ quotaMu = u =>
         /\ up[u].pc \in { "stat", "usage", "rename", "unlock" }
         /\ ~up[u].over
         /\ ~inode[u].open
         /\ up[u].n = Len(inode[u].data)
         /\ up[u].id = IdTable[inode[u].data]
         /\ up[u].resp.msg \notin IngestFailures
    /\ up[u].resp.msg \in IngestFailures =>
         /\ up[u].pc \in { "remove", "done" }
         /\ quotaMu # u

\* C14 witness: one request holds quotaMu with its payload staged while a request
\* whose copy failed and a request whose body was too large have returned.
C14_Witness ==
  \E u, v, w \in Uploads :
    /\ quotaMu = u /\ up[u].pc = "usage" /\ up[u].n > 0
    /\ up[v].pc = "done" /\ up[v].resp.msg = "copy"
    /\ up[w].pc = "done" /\ up[w].resp.msg = "upload exceeds MAX_UPLOAD_GB"

\* C15: a shard directory is created only by the request that holds quotaMu,
\* after its existence check found no object and its quota check passed.
C15_MkdirUnderLock ==
  [][ dirs' # dirs => \E u \in Uploads : quotaMu = u /\ up[u].pc = "rename" ]_vars

\* C16: the entry of a staging name is taken away (renamed or removed) only
\* by the request whose os.CreateTemp made it.
C16_StagingOwnership ==
  [][ \A u \in Uploads :
        up'[u] # up[u] =>
          \A t \in TmpNames :
            (tmpDir[t] # 0 /\ tmpDir'[t] # tmpDir[t]) => tmpDir[t] = u ]_vars

\* C17: the file a request has created and written never holds more than
\* MaxUploadByte bytes.
C17_BoundedStaging == \A u \in Uploads : Len(inode[u].data) <= MaxUploadByte

\* C17 witness: a raw body and a multipart body were both cut off by the
\* limit; the staging file of the raw one holds MaxUploadByte bytes, that of
\* the multipart one the bytes of its file part read before the limit.
C17_Witness ==
  \E u, v \in Uploads :
    /\ up[u].pc = "remove" /\ up[u].over /\ ~up[u].mp
    /\ tmpDir[up[u].tmp] = u /\ Len(inode[u].data) = MaxUploadByte
    /\ up[v].pc = "remove" /\ up[v].over /\ up[v].mp
    /\ tmpDir[up[v].tmp] = v /\ Len(inode[v].data) > 0

\* The next step of the staging work of request v can be taken: creating the
\* staging file (while a staging name is free), reading the Content-Type,
\* copying a byte the client sends, ending the copy, closing the file and
\* making the shard directories.
StagingCanStep(v) ==
  /\ (Arrived(v) /\ \E t \in TmpNames : tmpDir[t] = 0) => ENABLED CreateTemp(v)
  /\ up[v].pc = "ctype" => ENABLED ParseMediaType(v)
  /\ (up[v].pc = "copy" /\ up[v].read < MaxUploadByte) => ENABLED CopyByte(v)
  /\ up[v].pc = "copy" => ENABLED CopyEOF(v)
  /\ up[v].pc = "close" => ENABLED CloseTmp(v)
  /\ up[v].pc = "mkdir" => ENABLED MkdirAll(v)

\* C18: while a request holds quotaMu, every other request that is staging
\* can take its next staging step and the retrieval can take its next step;
\* of the other requests only one at quotaMu.Lock() waits.
C18_LockBlocksOnlyPublish ==
  quotaMu # 0 =>
    /\ \A v \in Uploads \ {quotaMu} :
         /\ StagingCanStep(v)
         /\ up[v].pc = "lock" => ~ENABLED Lock(v)
    /\ get.pc = "start" => ENABLED ServeOpenOf(IdPaths)
    /\ get.pc = "serve" => ENABLED ServeContent

\* C18 witness: one request is in its usage walk while another is halfway
\* through its copy and the retrieval has opened a stored object.
C18_Witness ==
  \E u, v \in Uploads :
    /\ quotaMu = u /\ up[u].pc = "usage"
    /\ up[v].pc = "copy" /\ up[v].read = 1
    /\ get.pc = "serve"

\* C19: a request that is past the deferred Unlock does not hold quotaMu; a
\* request waiting at quotaMu.Lock() comes to hold it; and a request whose
\* body has ended returns.
C19_LockProgress ==
  \A u \in Uploads :
    /\ [](up[u].pc \in { "remove", "done" } => quotaMu # u)
    /\ (up[u].pc = "lock") ~> (quotaMu = u)
    /\ (up[u].pc = "close") ~> (up[u].pc = "done")

\* C19 witness: a request waits at quotaMu.Lock() while another holds the mutex,
\* after a third was rejected at the gate and has returned.
C19_Witness ==
  \E u, v, w \in Uploads :
    /\ up[u].pc = "lock"
    /\ quotaMu = v /\ v # u
    /\ up[w].pc = "done" /\ up[w].resp.code = 507

\* C20: when a request that created a staging file returns, its handle on
\* that file is closed.
C20_HandleClosed ==
  \A u \in Uploads : (up[u].pc = "done" /\ up[u].tmp # 0) => ~inode[u].open

====
